---------------------------- MODULE Spec2Model ----------------------------
(***************************************************************************)
(* A model of Frustal's progressive Mandelbrot renderer:                   *)
(*   src/src/fractals.rs  mandelbrot, color_map                            *)
(*   src/src/args.rs      Args, ScanConfig and their builders              *)
(*   src/src/renderer.rs  Renderer and RendererRunner                      *)
(*                                                                         *)
(* Numbers.  f64 values are modelled in fixed point: an integer n stands   *)
(* for n / Unit, and every product and quotient is rounded to the nearest  *)
(* representable value (ties to even), as an f64 operation rounds to the   *)
(* nearest f64.  u32 values that can exceed the range of the checker's     *)
(* integers (initial_stride) are pairs of 16-bit halves.  A sum is rounded  *)
(* to MantBits significant bits; the centre of the region is the only      *)
(* quantity that leaves the range in which sums are exact.                 *)
(*                                                                         *)
(* Sizes.  The window, the pixel buffer and the iteration cap of the       *)
(* source (800x600, 800x800, 200) are divided by PixelBlock and IterBlock  *)
(* so that a frame is a few dozen bytes.                                   *)
(***************************************************************************)
EXTENDS Integers, Sequences, FiniteSets, TLC

(***************************************************************************)
(* Bounds of the model.                                                    *)
(***************************************************************************)
\* fixed-point resolution: one unit is 1/Unit
Unit == 1000
\* one model pixel stands for a PixelBlock x PixelBlock block of the source's
PixelBlock == 200
\* one model iteration stands for IterBlock iterations of the source's cap
IterBlock == 50
\* largest width and height an Args value is built with
MaxDim == 4
\* largest value rayon::current_num_threads() takes
MaxThreads == 4
\* largest iteration cap an Args value is built with
MaxCap == 4
\* number of pan / zoom / colour-scheme calls along one behaviour
MaxOps == 2
\* render calls are followed up to this scan level
MaxScanLevel == 34
\* significant bits of a sum (53 in an f64)
MantBits == 14

(***************************************************************************)
(* Fixed-point arithmetic standing for f64.                                *)
(***************************************************************************)
Abs(n) == IF n < 0 THEN -n ELSE n

Min(a, b) == IF a <= b THEN a ELSE b

Max(a, b) == IF a >= b THEN a ELSE b

\* n / d rounded to the nearest integer, ties to even (d > 0)
RoundDiv(n, d) ==
    LET q == n \div d
        r == n % d
    IN  IF 2 * r < d THEN q
        ELSE IF 2 * r > d THEN q + 1
        ELSE IF q % 2 = 0 THEN q ELSE q + 1

\* the literal n/d, e.g. F(9, 10) for 0.9
F(n, d) == RoundDiv(n * Unit, d)

FMul(a, b) == RoundDiv(a * b, Unit)

\* a / b for b # 0
FDiv(a, b) == IF b > 0 THEN RoundDiv(a * Unit, b) ELSE RoundDiv((-a) * Unit, -b)

(***************************************************************************)
(* u32 as a pair of 16-bit halves.                                         *)
(***************************************************************************)
RECURSIVE Pow2(_)
Pow2(n) == IF n = 0 THEN 1 ELSE 2 * Pow2(n - 1)

Half == Pow2(16)

\* the spacing of the representable values around n: the least 2^k with
\* |n| < 2^(MantBits + k), from u on
RECURSIVE ulp(_, _)
ulp(n, u) == IF Abs(n) < u * Pow2(MantBits) THEN u ELSE ulp(n, 2 * u)

\* a + b rounded to MantBits significant bits, ties to even.  Sums below
\* 2^MantBits / Unit in magnitude are exact.
FAdd(a, b) == ulp(a + b, 1) * RoundDiv(a + b, ulp(a + b, 1))

U32(hi, lo) == [hi |-> hi, lo |-> lo]

ToU32(n) == U32(n \div Half, n % Half)

\* s >> n for 0 <= n <= 31
Shr(s, n) ==
    IF n >= 16
    THEN U32(0, s.hi \div Pow2(n - 16))
    ELSE U32(s.hi \div Pow2(n),
             (s.hi % Pow2(n)) * Pow2(16 - n) + s.lo \div Pow2(n))

\* s < 1
IsZero(s) == s.hi = 0 /\ s.lo = 0

\* n % (s as usize) = 0, for 0 <= n < Half and s >= 1
Divides(s, n) == IF s.hi > 0 THEN n = 0 ELSE n % s.lo = 0

\* min(s, n) for 0 <= n < Half
CapAt(s, n) == IF s.hi > 0 \/ s.lo > n THEN n ELSE s.lo

(***************************************************************************)
(* fractals.rs                                                             *)
(***************************************************************************)
\* z.norm() > 2.0
NormExceeds2(zr, zi) ==
    \/ Abs(zr) > 2 * Unit
    \/ Abs(zi) > 2 * Unit
    \/ zr * zr + zi * zi > 4 * Unit * Unit

\* the loop of mandelbrot from `iteration` on, with z = zr + zi*i
RECURSIVE mandelbrot_loop(_, _, _, _, _, _)
mandelbrot_loop(real, imag, max_iter, zr, zi, iteration) ==
    IF iteration >= max_iter THEN max_iter
    ELSE IF NormExceeds2(zr, zi) THEN iteration
    ELSE mandelbrot_loop(real, imag, max_iter,
                         FMul(zr, zr) - FMul(zi, zi) + real,
                         FMul(zr, zi) + FMul(zi, zr) + imag,
                         iteration + 1)

mandelbrot(real, imag, max_iter) == mandelbrot_loop(real, imag, max_iter, 0, 0, 0)

ColorModes ==
    {"Smooth", "Zebra", "Red", "Blue", "BlackAndWhite", "Rainbow",
     "Psychedelic", "GreenGradient", "Electric"}

\* `v as u8` for an integer v: the cast saturates
Sat8(v) == IF v < 0 THEN 0 ELSE IF v > 255 THEN 255 ELSE v

\* log2(n) in millionths, for the iteration counts the model reaches
Log2Micro(n) ==
    <<0, 1000000, 1584963, 2000000, 2321928, 2584963, 2807355, 3000000>>[n]

\* color_map's `match mode`, for iterations # max_iterations.
\* The channels are computed in exact arithmetic and then truncated, where the
\* source computes them in f64: a channel can differ by one from the source's
\* where the f64 product lands just below an integer (Rainbow at 1/5).
color_map_outside(iterations, max_iterations, mode) ==
    LET it == iterations
        mx == max_iterations
        \* floor(normalized_iter * 255 * k)
        scaled(k) == (255 * k * it) \div mx
        \* floor((hue - k) * 255) and floor(255 - (hue - k) * 255), hue = 6 it / mx
        up(k) == (1530 * it - 255 * k * mx) \div mx
        down(k) == (255 * mx - (1530 * it - 255 * k * mx)) \div mx
        hueBelow(k) == 6 * it < k * mx
    IN  CASE mode = "Smooth" ->
               \* log2(0) is -inf and its fractional part NaN, which casts to 0
               IF it = 0 \/ Log2Micro(mx) = 0 THEN <<0, 0, 0>>
               ELSE LET lm == Log2Micro(mx)
                        lt == Log2Micro(it) % lm
                    IN  <<Sat8((9 * lm + 6 * lt) \div lm),
                          Sat8((7 * lt) \div lm),
                          Sat8((255 * lm - 155 * lt) \div lm)>>
          [] mode = "Zebra" ->
               IF ((10 * it) \div mx) % 2 = 0 THEN <<255, 255, 255>> ELSE <<0, 0, 0>>
          [] mode = "Red" -> <<Sat8(scaled(1)), 0, 0>>
          [] mode = "Blue" -> <<0, 0, Sat8(scaled(1))>>
          [] mode = "BlackAndWhite" ->
               <<Sat8(scaled(1)), Sat8(scaled(1)), Sat8(scaled(1))>>
          [] mode = "Rainbow" ->
               <<IF hueBelow(1) THEN Sat8(up(0))
                 ELSE IF hueBelow(2) THEN Sat8(down(1))
                 ELSE IF hueBelow(3) THEN 0
                 ELSE IF hueBelow(4) THEN Sat8(up(3))
                 ELSE IF hueBelow(5) THEN Sat8(down(4))
                 ELSE 0,
                 IF hueBelow(1) THEN Sat8(down(0))
                 ELSE IF hueBelow(2) THEN 255
                 ELSE IF hueBelow(3) THEN Sat8(down(2))
                 ELSE IF hueBelow(4) THEN 0
                 ELSE IF hueBelow(5) THEN Sat8(up(4))
                 ELSE 255,
                 IF hueBelow(1) THEN 0
                 ELSE IF hueBelow(2) THEN Sat8(up(1))
                 ELSE IF hueBelow(3) THEN 255
                 ELSE IF hueBelow(4) THEN Sat8(down(3))
                 ELSE IF hueBelow(5) THEN 0
                 ELSE Sat8(up(5))>>
          [] mode = "Psychedelic" ->
               <<scaled(3) % 256, scaled(5) % 256, scaled(7) % 256>>
          [] mode = "GreenGradient" -> <<0, Sat8(scaled(1)), 0>>
          [] mode = "Electric" ->
               <<scaled(2) % 256, scaled(3) % 256, scaled(5) % 256>>

\* color_map with an inside colour that depends on the scheme
color_map_inside_by_scheme(iterations, max_iterations, mode) ==
    IF iterations = max_iterations
    THEN IF mode = "Zebra" THEN <<255, 255, 255>> ELSE <<0, 0, 0>>
    ELSE color_map_outside(iterations, max_iterations, mode)

color_map(iterations, max_iterations, mode) ==
    IF iterations = max_iterations THEN <<0, 0, 0>>
    ELSE color_map_outside(iterations, max_iterations, mode)

(***************************************************************************)
(* args.rs                                                                 *)
(***************************************************************************)
ColorSchemes == ColorModes

ScanConfig_default == [enabled |-> TRUE, initial_stride |-> ToU32(8)]

\* Args::new panics instead of returning (u32 arguments: <= 0 means = 0)
Args_new_panics(width, height, max_iterations) ==
    \/ width <= 0 \/ height <= 0
    \/ max_iterations <= 0

Args_new(width, height, max_iterations, fullscreen, upper_left, lower_right, color_scheme) ==
    [width |-> width, height |-> height,
     upper_left |-> upper_left, lower_right |-> lower_right,
     max_iterations |-> max_iterations, color_scheme |-> color_scheme,
     fullscreen |-> fullscreen, scan_config |-> ScanConfig_default]

with_scan_config(a, enabled, initial_stride) ==
    [a EXCEPT !.scan_config = [enabled |-> enabled, initial_stride |-> initial_stride]]

with_size_panics(width, height) == width <= 0 \/ height <= 0

with_size(a, width, height) == [a EXCEPT !.width = width, !.height = height]

with_max_iterations_panics(max_iterations) == max_iterations <= 0

with_max_iterations(a, max_iterations) == [a EXCEPT !.max_iterations = max_iterations]

Args_default ==
    [width |-> 800 \div PixelBlock, height |-> 800 \div PixelBlock,
     upper_left |-> <<F(-5, 2), F(3, 2)>>, lower_right |-> <<F(3, 2), F(-5, 2)>>,
     max_iterations |-> 200 \div IterBlock, color_scheme |-> "Red",
     fullscreen |-> FALSE, scan_config |-> ScanConfig_default]

(***************************************************************************)
(* renderer.rs: Renderer                                                   *)
(***************************************************************************)
Renderer_new ==
    [width |-> 800 \div PixelBlock, height |-> 600 \div PixelBlock,
     center_x |-> F(-1, 2), center_y |-> 0, scale |-> F(5, 2),
     max_iterations |-> 200 \div IterBlock, color_scheme |-> "Smooth",
     scan_level |-> 0, scan_config |-> ScanConfig_default]

pan(r, dx, dy) ==
    [r EXCEPT !.center_x = FAdd(@, FMul(FMul(dx, r.scale), F(3, 10))),
              !.center_y = FAdd(@, FMul(FMul(dy, r.scale), F(3, 10))),
              !.scan_level = IF r.scan_config.enabled THEN 0 ELSE @]

\* a zoom without the clamp
zoom_unclamped(r, factor) == TRUE

\* whether zoom(factor) passes the clamp
zoom_accepted(r, factor) == FMul(r.scale, factor) <= 10 * Unit

\* zoom without the restart of the refinement
zoom_keeps_level(r, factor) ==
    IF zoom_accepted(r, factor)
    THEN [r EXCEPT !.scale = FMul(r.scale, factor)]
    ELSE r

zoom(r, factor) ==
    IF zoom_accepted(r, factor)
    THEN [r EXCEPT !.scale = FMul(r.scale, factor),
                   !.scan_level = IF r.scan_config.enabled THEN 0 ELSE @]
    ELSE r

change_color_scheme(r, scheme) ==
    [r EXCEPT !.color_scheme = scheme,
              !.scan_level = IF r.scan_config.enabled THEN 0 ELSE @]

get_color(r, iterations) == color_map(iterations, r.max_iterations, r.color_scheme)

\* `initial_stride >> scan_level` shifts a u32 by 32 or more: a build with
\* overflow checks panics there, a build without them masks the shift amount
shift_overflows(r) == r.scan_level >= 32

\* the stride render and is_scanning compute, when the shift does not panic
stride_of(r) ==
    IF r.scan_level = 0 THEN r.scan_config.initial_stride
    ELSE Shr(r.scan_config.initial_stride, r.scan_level % 32)

\* is_scanning panics instead of returning
is_scanning_panics(r, checks) ==
    r.scan_config.enabled /\ checks /\ shift_overflows(r)

is_scanning(r) ==
    IF ~r.scan_config.enabled THEN FALSE
    ELSE ~IsZero(stride_of(r))

\* the colour of the sample at pixel `index`
sample_color(r, index) ==
    LET x == index % r.width
        y == index \div r.width
        real == r.center_x
                + FDiv(FMul(x * Unit - FDiv(r.width * Unit, 2 * Unit), r.scale),
                       r.width * Unit)
        imag == r.center_y
                + FDiv(FMul(y * Unit - FDiv(r.height * Unit, 2 * Unit), r.scale),
                       r.height * Unit)
    IN  get_color(r, mandelbrot(real, imag, r.max_iterations))

chunk_size(r, threads) == Max((r.width * r.height) \div threads, 1)

\* the chunks par_chunks_exact_mut hands out: only whole ones
chunk_indices(r, threads, len) == 0 .. (len \div (4 * chunk_size(r, threads))) - 1

\* the writes of one worker of render_full, as [at: byte offset in the frame,
\* color]; the chunk starts at byte 4 * chunk_size * chunk_index of the frame
render_full_chunk(r, threads, chunk_index) ==
    LET cs == chunk_size(r, threads)
        start == chunk_index * cs
        end == Min(start + cs, r.width * r.height)
    IN  { [at |-> 4 * cs * chunk_index + (index - start) * 4,
           color |-> sample_color(r, index)] : index \in start .. (end - 1) }

\* a worker of render_with_stride that fills its blocks without the test
\* `fill_index + 3 < chunk.len()`
render_with_stride_unchecked(r, threads, stride, chunk_index) ==
    LET cs == chunk_size(r, threads)
        start == chunk_index * cs
        end == Min(start + cs, r.width * r.height)
        X(index) == index % r.width
        Y(index) == index \div r.width
        sampled == { index \in start .. (end - 1) :
                        Divides(stride, X(index)) /\ Divides(stride, Y(index)) }
        block(index) ==
            { d \in (0 .. CapAt(stride, r.width) - 1)
                    \X (0 .. CapAt(stride, r.height) - 1) :
                X(index) + d[1] < r.width /\ Y(index) + d[2] < r.height }
    IN  UNION { { [at |-> 4 * ((Y(index) + d[2]) * r.width + X(index) + d[1]),
                   color |-> sample_color(r, index)] : d \in block(index) }
                : index \in sampled }

\* the writes of one worker of render_with_stride
render_with_stride_chunk(r, threads, stride, chunk_index) ==
    LET cs == chunk_size(r, threads)
        start == chunk_index * cs
        end == Min(start + cs, r.width * r.height)
        X(index) == index % r.width
        Y(index) == index \div r.width
        sampled == { index \in start .. (end - 1) :
                        Divides(stride, X(index)) /\ Divides(stride, Y(index)) }
        fill_index(index, dx, dy) ==
            ((Y(index) + dy) * r.width + (X(index) + dx) - start) * 4
        \* dy and dx beyond the frame fail `fill_x < width && fill_y < height`
        block(index) ==
            { d \in (0 .. CapAt(stride, r.width) - 1)
                    \X (0 .. CapAt(stride, r.height) - 1) :
                /\ X(index) + d[1] < r.width
                /\ Y(index) + d[2] < r.height
                /\ fill_index(index, d[1], d[2]) + 3 < 4 * cs }
        colors == { [index |-> index, color |-> sample_color(r, index)]
                    : index \in sampled }
    IN  UNION { { [at |-> 4 * cs * chunk_index + fill_index(c.index, d[1], d[2]),
                   color |-> c.color] : d \in block(c.index) }
                : c \in colors }

\* the frame after the workers' writes (every write is 4 bytes long and starts
\* at a multiple of 4)
apply_writes(frame, writes) ==
    LET ats == { w.at : w \in writes }
    IN  [i \in 1 .. Len(frame) |->
            LET at == 4 * ((i - 1) \div 4)
            IN  IF at \notin ats THEN frame[i]
                ELSE LET w == CHOOSE v \in writes : v.at = at
                     IN  <<w.color[1], w.color[2], w.color[3], 255>>[i - at]]

render_full(r, frame, threads) ==
    apply_writes(frame,
        UNION { render_full_chunk(r, threads, ci)
                : ci \in chunk_indices(r, threads, Len(frame)) })

render_with_stride(r, frame, threads, stride) ==
    apply_writes(frame,
        UNION { render_with_stride_chunk(r, threads, stride, ci)
                : ci \in chunk_indices(r, threads, Len(frame)) })

\* render panics instead of returning
render_panics(r, checks) == is_scanning_panics(r, checks)

\* render without the test of scan_config.enabled
render_always_progressive(r, frame, threads) ==
    IF IsZero(stride_of(r))
    THEN [renderer |-> r, frame |-> frame, pass |-> "none", stride |-> ToU32(0)]
    ELSE [renderer |-> [r EXCEPT !.scan_level = @ + 1],
          frame |-> render_with_stride(r, frame, threads, stride_of(r)),
          pass |-> "stride", stride |-> stride_of(r)]

\* Renderer::render: the renderer and the frame after the call, and the stride
\* of the pass it made (pass = "full", "stride" or "none")
render(r, frame, threads) ==
    IF ~r.scan_config.enabled
    THEN [renderer |-> r, frame |-> render_full(r, frame, threads),
          pass |-> "full", stride |-> ToU32(1)]
    ELSE IF IsZero(stride_of(r))
    THEN [renderer |-> r, frame |-> frame, pass |-> "none", stride |-> ToU32(0)]
    ELSE [renderer |-> [r EXCEPT !.scan_level = @ + 1],
          frame |-> render_with_stride(r, frame, threads, stride_of(r)),
          pass |-> "stride", stride |-> stride_of(r)]

(***************************************************************************)
(* The state.                                                              *)
(*   phase     "builder": a RendererRunner under construction (new,        *)
(*             with_args); "running": its event loop; "exited";            *)
(*             "client": a caller that owns a Renderer and calls its       *)
(*             public methods; "args": a caller building an Args value;    *)
(*             "eval": a caller of mandelbrot; "color": a caller of        *)
(*             color_map                                                   *)
(*   renderer  the Renderer                                                *)
(*   frame     the bytes of the buffer handed to Renderer::render          *)
(*   window    the window's inner size                                     *)
(*   redraw    a redraw has been requested and not yet delivered           *)
(*   args      the Args value (RendererRunner.args, or the one being built)*)
(*   threads   rayon::current_num_threads()                                *)
(*   overflow_checks  the build panics on arithmetic overflow              *)
(*   panicked  the program has panicked                                    *)
(*   last      the last call made, its inputs and, for pan, zoom and       *)
(*             change_color_scheme, the scan level it found                *)
(*   strides   the strides of the passes made since the region, the cap or *)
(*             the colour scheme last changed                              *)
(*   ops       how many with_args / pan / zoom / colour-scheme steps were  *)
(*             taken                                                       *)
(*   eval      the last evaluation of mandelbrot or color_map: its inputs  *)
(*             and result                                                  *)
(***************************************************************************)
VARIABLES phase, renderer, frame, window, redraw, args, threads,
          overflow_checks, panicked, last, strides, ops, eval

vars == <<phase, renderer, frame, window, redraw, args, threads,
          overflow_checks, panicked, last, strides, ops, eval>>

ZeroFrame(n) == [i \in 1 .. n |-> 0]

NoCall == [op |-> "none"]

NoEval == [real |-> 0, imag |-> 0, max_iter |-> 0, result |-> 0]

\* RendererRunner::new: the window, Args::default(), the pixel buffer of the
\* Args' size, Renderer::new()
RunnerInit ==
    /\ phase = "builder"
    /\ renderer = Renderer_new
    /\ args = Args_default
    /\ window = [width |-> 800 \div PixelBlock, height |-> 600 \div PixelBlock]
    /\ frame = ZeroFrame(4 * Args_default.width * Args_default.height)
    /\ redraw = FALSE
    /\ panicked = FALSE
    /\ last = NoCall
    /\ strides = <<>>
    /\ ops = 0
    /\ eval = NoEval

\* a caller's Renderer::new() and the buffer it will pass to render
ClientInit(lens) ==
    /\ phase = "client"
    /\ renderer = Renderer_new
    /\ args = Args_default
    /\ window = [width |-> 0, height |-> 0]
    /\ \E len \in lens : frame = ZeroFrame(len)
    /\ redraw = FALSE
    /\ panicked = FALSE
    /\ last = NoCall
    /\ strides = <<>>
    /\ ops = 0
    /\ eval = NoEval

(***************************************************************************)
(* renderer.rs: RendererRunner                                             *)
(***************************************************************************)
\* RendererRunner::with_args.  set_inner_size is taken to resize the window
\* at once.
with_args(a) ==
    LET resize == window.width # a.width \/ window.height # a.height
    IN  /\ renderer' = [renderer EXCEPT
                           !.max_iterations = a.max_iterations,
                           !.scan_config = a.scan_config,
                           !.width = IF resize THEN a.width ELSE @,
                           !.height = IF resize THEN a.height ELSE @]
        /\ window' = IF resize THEN [width |-> a.width, height |-> a.height]
                     ELSE window
        /\ frame' = IF resize THEN ZeroFrame(4 * a.width * a.height) ELSE frame
        /\ args' = a

WithArgs(choices, limit) ==
    /\ phase = "builder" /\ ~panicked
    /\ ops < limit
    /\ \E a \in choices :
        /\ with_args(a)
        /\ last' = [op |-> "with_args"]
    /\ strides' = <<>>
    /\ ops' = ops + 1
    /\ UNCHANGED <<phase, redraw, threads, overflow_checks, panicked, eval>>

\* The part of the state Renderer::render works on, threaded through the
\* calls one handler makes.
Current ==
    [renderer |-> renderer, frame |-> frame, panicked |-> panicked,
     strides |-> strides]

Commit(st) ==
    /\ renderer' = st.renderer
    /\ frame' = st.frame
    /\ panicked' = st.panicked
    /\ strides' = st.strides

\* a call of Renderer::render; after a panic nothing more is executed
do_render(st) ==
    IF st.panicked THEN st
    ELSE IF render_panics(st.renderer, overflow_checks)
    THEN [st EXCEPT !.panicked = TRUE]
    ELSE LET out == render(st.renderer, st.frame, threads)
         IN  [renderer |-> out.renderer, frame |-> out.frame, panicked |-> FALSE,
              strides |-> IF out.pass = "none" THEN st.strides
                          ELSE Append(st.strides, out.stride)]

\* RendererRunner::run up to the event loop: the initial render
Run ==
    /\ phase = "builder" /\ ~panicked
    /\ Commit(do_render(Current))
    /\ phase' = "running"
    /\ last' = [op |-> "run"]
    /\ UNCHANGED <<window, redraw, args, threads, overflow_checks, ops, eval>>

KeyNames ==
    <<"Key1", "Key2", "Key3", "Key4", "Key5", "Key6", "Key7", "Key8", "Key9">>

KeySchemes ==
    <<"Smooth", "Zebra", "Red", "Blue", "BlackAndWhite", "Rainbow",
      "Psychedelic", "GreenGradient", "Electric">>

\* handle_input's nine `if input.key_pressed(KeyN)` statements, from the k-th on
RECURSIVE scheme_keys(_, _, _)
scheme_keys(r, pressed, k) ==
    IF k > 9 THEN r
    ELSE scheme_keys(IF KeyNames[k] \in pressed
                     THEN change_color_scheme(r, KeySchemes[k]) ELSE r,
                     pressed, k + 1)

pan_x(held) ==
    (IF "Left" \in held THEN -F(5, 100) ELSE 0)
    + (IF "Right" \in held THEN F(5, 100) ELSE 0)

pan_y(held) ==
    (IF "Up" \in held THEN -F(5, 100) ELSE 0)
    + (IF "Down" \in held THEN F(5, 100) ELSE 0)

pans(held) == pan_x(held) # 0 \/ pan_y(held) # 0

needs_update(held, pressed) ==
    \/ pans(held)
    \/ "PageUp" \in held \/ "PageDown" \in held
    \/ \E k \in 1 .. 9 : KeyNames[k] \in pressed

\* the renderer after handle_input's pan, zoom and change_color_scheme calls
handle_input_renderer(r, held, pressed) ==
    LET r1 == IF pans(held) THEN pan(r, pan_x(held), pan_y(held)) ELSE r
        r2 == IF "PageUp" \in held THEN zoom(r1, F(9, 10)) ELSE r1
        r3 == IF "PageDown" \in held THEN zoom(r2, F(11, 10)) ELSE r2
    IN  scheme_keys(r3, pressed, 1)

\* whether those calls changed the region or the colour scheme
handle_input_changes(r, held, pressed) ==
    LET r1 == IF pans(held) THEN pan(r, pan_x(held), pan_y(held)) ELSE r
        r2 == IF "PageUp" \in held THEN zoom(r1, F(9, 10)) ELSE r1
    IN  \/ pans(held)
        \/ "PageUp" \in held /\ zoom_accepted(r1, F(9, 10))
        \/ "PageDown" \in held /\ zoom_accepted(r2, F(11, 10))
        \/ \E k \in 1 .. 9 : KeyNames[k] \in pressed

\* RendererRunner::handle_input
handle_input(st, held, pressed) ==
    LET st1 == [st EXCEPT
                   !.renderer = handle_input_renderer(st.renderer, held, pressed),
                   !.strides = IF handle_input_changes(st.renderer, held, pressed)
                               THEN <<>> ELSE @]
    IN  IF needs_update(held, pressed) THEN do_render(st1) ELSE st1

\* the closure's `match event`, after handle_input: the state and whether a
\* redraw was requested
match_event(st, ev) ==
    IF st.panicked THEN [st |-> st, request |-> FALSE]
    ELSE IF ev \in {"RedrawRequested", "MainEventsCleared"}
            /\ is_scanning_panics(st.renderer, overflow_checks)
    THEN [st |-> [st EXCEPT !.panicked = TRUE], request |-> FALSE]
    ELSE IF ev = "RedrawRequested" /\ is_scanning(st.renderer)
    THEN [st |-> do_render(st), request |-> TRUE]
    ELSE IF ev = "MainEventsCleared" /\ is_scanning(st.renderer)
    THEN [st |-> st, request |-> TRUE]
    ELSE [st |-> st, request |-> ev = "Resized"]

Events ==
    {"CloseRequested", "Resized", "RedrawRequested", "MainEventsCleared",
     "LoopDestroyed", "Other"}

\* one call of the closure RendererRunner::run gives to the event loop
Event(inputs) ==
    /\ phase = "running" /\ ~panicked
    /\ renderer.scan_level < MaxScanLevel
    /\ \E key \in inputs :
        LET ev == key.ev IN
        IF "Escape" \in key.pressed
        THEN /\ phase' = "exited"
             /\ last' = [op |-> "event", held |-> key.held, pressed |-> key.pressed,
                         ev |-> ev]
             /\ UNCHANGED <<renderer, frame, panicked, strides, redraw, ops>>
        ELSE LET update == needs_update(key.held, key.pressed)
                 st1 == handle_input(Current, key.held, key.pressed)
                 out == match_event(st1, ev)
             IN  /\ update => ops < MaxOps
                 /\ Commit(out.st)
                 /\ redraw' = IF (update /\ ~st1.panicked) \/ out.request THEN TRUE
                              ELSE IF ev = "RedrawRequested" THEN FALSE
                              ELSE redraw
                 /\ phase' = IF ~out.st.panicked
                                /\ ev \in {"CloseRequested", "LoopDestroyed"}
                             THEN "exited" ELSE phase
                 /\ ops' = IF update THEN ops + 1 ELSE ops
                 /\ last' = [op |-> "event", held |-> key.held,
                             pressed |-> key.pressed, ev |-> ev]
    /\ UNCHANGED <<window, args, threads, overflow_checks, eval>>

(***************************************************************************)
(* A caller of Renderer's public methods.                                  *)
(***************************************************************************)
Pan(inputs) ==
    /\ phase = "client" /\ ~panicked
    /\ ops < MaxOps
    /\ \E d \in inputs :
        /\ renderer' = pan(renderer, d[1], d[2])
        /\ last' = [op |-> "pan", dx |-> d[1], dy |-> d[2],
                    level |-> renderer.scan_level]
    /\ strides' = <<>>
    /\ ops' = ops + 1
    /\ UNCHANGED <<phase, frame, window, redraw, args, threads, overflow_checks,
                   panicked, eval>>

Zoom(inputs) ==
    /\ phase = "client" /\ ~panicked
    /\ ops < MaxOps
    /\ \E factor \in inputs :
        /\ renderer' = zoom(renderer, factor)
        /\ last' = [op |-> "zoom", factor |-> factor,
                    accepted |-> zoom_accepted(renderer, factor),
                    level |-> renderer.scan_level]
        /\ strides' = IF zoom_accepted(renderer, factor) THEN <<>> ELSE strides
    /\ ops' = ops + 1
    /\ UNCHANGED <<phase, frame, window, redraw, args, threads, overflow_checks,
                   panicked, eval>>

ChangeColorScheme(inputs) ==
    /\ phase = "client" /\ ~panicked
    /\ ops < MaxOps
    /\ \E scheme \in inputs :
        /\ renderer' = change_color_scheme(renderer, scheme)
        /\ last' = [op |-> "change_color_scheme", scheme |-> scheme,
                    level |-> renderer.scan_level]
    /\ strides' = <<>>
    /\ ops' = ops + 1
    /\ UNCHANGED <<phase, frame, window, redraw, args, threads, overflow_checks,
                   panicked, eval>>

Render ==
    /\ phase = "client" /\ ~panicked
    /\ renderer.scan_level < MaxScanLevel
    /\ Commit(do_render(Current))
    /\ last' = [op |-> "render"]
    /\ UNCHANGED <<phase, window, redraw, args, threads, overflow_checks, ops, eval>>

(***************************************************************************)
(* Spec: a RendererRunner from new() through with_args and run, or a       *)
(* caller of Renderer's methods.                                           *)
(***************************************************************************)
ArgsChoices ==
    {Args_default,
     with_scan_config(Args_default, FALSE, ToU32(8)),
     with_scan_config(with_size(Args_default, 3, 3), TRUE, ToU32(3)),
     with_max_iterations(with_scan_config(Args_default, TRUE, ToU32(0)), 3)}

\* the keys held and pressed when the closure is called, and its event
EventInputs ==
    {[held |-> h, pressed |-> {}, ev |-> "Other"] :
        h \in {{"Left"}, {"Down"}, {"Left", "Right"}, {"PageUp"}, {"PageDown"},
               {"PageUp", "PageDown"}}}
    \cup {[held |-> {}, pressed |-> p, ev |-> "Other"] :
            p \in {{"Key2"}, {"Key2", "Key6"}, {"Escape"}}}
    \cup {[held |-> {}, pressed |-> {}, ev |-> e] : e \in Events}
    \cup {[held |-> {"PageUp"}, pressed |-> {}, ev |-> "RedrawRequested"]}

PanInputs == {<<F(5, 100), 0>>, <<-F(5, 100), 0>>, <<0, Unit>>}

ZoomInputs == {F(9, 10), F(11, 10), 4 * Unit, 0, -Unit}

SchemeInputs == {"Zebra", "Rainbow"}

Init ==
    /\ threads \in 1 .. 2
    /\ overflow_checks \in BOOLEAN
    /\ \/ RunnerInit
       \/ ClientInit({4 * Renderer_new.width * Renderer_new.height})

Next ==
    \/ WithArgs(ArgsChoices, MaxOps)
    \/ Run
    \/ Event(EventInputs)
    \/ Pan(PanInputs)
    \/ Zoom(ZoomInputs)
    \/ ChangeColorScheme(SchemeInputs)
    \/ Render

Spec == Init /\ [][Next]_vars

(***************************************************************************)
(* SpecPass: the render passes of every configuration with_args can set    *)
(* (each size up to MaxDim, progressive or not, each stride of             *)
(* PassStrides, each thread count), and of a caller's Renderer::new() on   *)
(* buffers of several lengths (Renderer::render is public and takes any    *)
(* slice).  No pan, zoom or colour-scheme change happens here.             *)
(***************************************************************************)
\* 1, 2, 3, 8, 2^31 and 2^32 - 1
PassStrides ==
    {ToU32(1), ToU32(2), ToU32(3), ToU32(8), U32(32768, 0), U32(65535, 65535)}

PassArgs ==
    {with_scan_config(with_size(Args_default, w, h), FALSE, ToU32(8)) :
        w \in 1 .. MaxDim, h \in 1 .. MaxDim}
    \cup {with_scan_config(with_size(Args_default, w, h), TRUE, s) :
            w \in 1 .. MaxDim, h \in 1 .. MaxDim, s \in PassStrides}

PassLens ==
    LET n == 4 * Renderer_new.width * Renderer_new.height
    IN  {0, n - 4 * Renderer_new.width, n - 1, n, n + 4}

RedrawInputs ==
    {[held |-> {}, pressed |-> {}, ev |-> e] :
        e \in {"RedrawRequested", "MainEventsCleared"}}

InitPass ==
    /\ threads \in 1 .. MaxThreads
    /\ overflow_checks \in BOOLEAN
    /\ \/ RunnerInit
       \/ ClientInit(PassLens)

NextPass ==
    \/ WithArgs(PassArgs, 1)
    \/ Run
    \/ Event(RedrawInputs)
    \/ Render

SpecPass == InitPass /\ [][NextPass]_vars

(***************************************************************************)
(* SpecArgs: a caller building Args values.                                *)
(***************************************************************************)
\* corners of the region, as <<re, im>>
Corners == {<<0, 0>>, <<-Unit, Unit>>, <<Unit, -Unit>>, <<Unit, Unit>>}

ArgsNew ==
    /\ phase = "args" /\ ~panicked
    /\ \E width \in 0 .. 2, height \in 0 .. 2, max_iterations \in 0 .. MaxCap,
          upper_left \in Corners, lower_right \in Corners :
        /\ IF Args_new_panics(width, height, max_iterations)
           THEN panicked' = TRUE /\ args' = args
           ELSE /\ panicked' = FALSE
                /\ args' = Args_new(width, height, max_iterations, FALSE,
                                    upper_left, lower_right, "Smooth")
        /\ last' = [op |-> "Args::new"]
    /\ UNCHANGED <<phase, renderer, frame, window, redraw, threads,
                   overflow_checks, strides, ops, eval>>

ArgsWithScanConfig ==
    /\ phase = "args" /\ ~panicked
    /\ \E enabled \in BOOLEAN, initial_stride \in {ToU32(0), ToU32(8)} :
        args' = with_scan_config(args, enabled, initial_stride)
    /\ last' = [op |-> "with_scan_config"]
    /\ UNCHANGED <<phase, renderer, frame, window, redraw, threads,
                   overflow_checks, panicked, strides, ops, eval>>

ArgsWithSize ==
    /\ phase = "args" /\ ~panicked
    /\ \E width \in 0 .. 2, height \in 0 .. 2 :
        IF with_size_panics(width, height)
        THEN panicked' = TRUE /\ args' = args
        ELSE panicked' = FALSE /\ args' = with_size(args, width, height)
    /\ last' = [op |-> "with_size"]
    /\ UNCHANGED <<phase, renderer, frame, window, redraw, threads,
                   overflow_checks, strides, ops, eval>>

ArgsWithMaxIterations ==
    /\ phase = "args" /\ ~panicked
    /\ \E max_iterations \in 0 .. MaxCap :
        IF with_max_iterations_panics(max_iterations)
        THEN panicked' = TRUE /\ args' = args
        ELSE panicked' = FALSE /\ args' = with_max_iterations(args, max_iterations)
    /\ last' = [op |-> "with_max_iterations"]
    /\ UNCHANGED <<phase, renderer, frame, window, redraw, threads,
                   overflow_checks, strides, ops, eval>>

\* the caller starts from Args::default()
InitArgs ==
    /\ phase = "args"
    /\ args = Args_default
    /\ renderer = Renderer_new
    /\ frame = <<>>
    /\ window = [width |-> 0, height |-> 0]
    /\ redraw = FALSE
    /\ threads = 1
    /\ overflow_checks = FALSE
    /\ panicked = FALSE
    /\ last = [op |-> "Args::default"]
    /\ strides = <<>>
    /\ ops = 0
    /\ eval = NoEval

NextArgs ==
    \/ ArgsNew
    \/ ArgsWithScanConfig
    \/ ArgsWithSize
    \/ ArgsWithMaxIterations

SpecArgs == InitArgs /\ [][NextArgs]_vars

(***************************************************************************)
(* SpecEval: a caller of mandelbrot.                                       *)
(***************************************************************************)
\* the sample points: the multiples of 1/2 in [-3, 3] x [-3, 3]
Samples == { F(n, 2) : n \in -6 .. 6 }

Evaluate ==
    /\ phase = "eval"
    /\ \E real \in Samples, imag \in Samples, max_iter \in 0 .. MaxCap :
        eval' = [real |-> real, imag |-> imag, max_iter |-> max_iter,
                 result |-> mandelbrot(real, imag, max_iter)]
    /\ last' = [op |-> "mandelbrot"]
    /\ UNCHANGED <<phase, renderer, frame, window, redraw, args, threads,
                   overflow_checks, panicked, strides, ops>>

InitEval ==
    /\ phase = "eval"
    /\ eval = NoEval
    /\ args = Args_default
    /\ renderer = Renderer_new
    /\ frame = <<>>
    /\ window = [width |-> 0, height |-> 0]
    /\ redraw = FALSE
    /\ threads = 1
    /\ overflow_checks = FALSE
    /\ panicked = FALSE
    /\ last = NoCall
    /\ strides = <<>>
    /\ ops = 0

NextEval == Evaluate

SpecEval == InitEval /\ [][NextEval]_vars

(***************************************************************************)
(* SpecPan: a caller that pans, by small and by large steps, and zooms.    *)
(***************************************************************************)
PanSteps == {-50 * Unit, -F(5, 100), 0, F(5, 100), 50 * Unit}

FarPans == (PanSteps \X PanSteps) \ {<<0, 0>>}

InitPan ==
    /\ threads = 1
    /\ overflow_checks = FALSE
    /\ ClientInit({4 * Renderer_new.width * Renderer_new.height})

NextPan ==
    \/ Pan(FarPans)
    \/ Zoom({F(9, 10), F(11, 10)})

SpecPan == InitPan /\ [][NextPan]_vars

(***************************************************************************)
(* SpecColor: a caller of color_map, with iteration counts as mandelbrot   *)
(* returns them (at most the cap).                                         *)
(***************************************************************************)
EvaluateColor ==
    /\ phase = "color"
    /\ \E max_iterations \in 0 .. MaxCap, mode \in ColorModes :
        \E iterations \in 0 .. max_iterations :
            eval' = [iterations |-> iterations, max_iterations |-> max_iterations,
                     mode |-> mode,
                     color |-> color_map(iterations, max_iterations, mode)]
    /\ last' = [op |-> "color_map"]
    /\ UNCHANGED <<phase, renderer, frame, window, redraw, args, threads,
                   overflow_checks, panicked, strides, ops>>

InitColor ==
    /\ phase = "color"
    /\ eval = [iterations |-> 0, max_iterations |-> 1, mode |-> "Smooth",
               color |-> color_map(0, 1, "Smooth")]
    /\ args = Args_default
    /\ renderer = Renderer_new
    /\ frame = <<>>
    /\ window = [width |-> 0, height |-> 0]
    /\ redraw = FALSE
    /\ threads = 1
    /\ overflow_checks = FALSE
    /\ panicked = FALSE
    /\ last = NoCall
    /\ strides = <<>>
    /\ ops = 0

NextColor == EvaluateColor

SpecColor == InitColor /\ [][NextColor]_vars

(***************************************************************************)
(* Properties.                                                             *)
(***************************************************************************)
\* the four bytes of pixel p of a frame
pixel_at(f, p) == <<f[4 * p + 1], f[4 * p + 2], f[4 * p + 3], f[4 * p + 4]>>

\* a colour as a pass writes it
opaque(c) == <<c[1], c[2], c[3], 255>>

\* initial_stride >> n as a number: 0 from n = 32 on
halved(s, n) == IF n >= 32 THEN ToU32(0) ELSE Shr(s, n)

\* s * floor(n / s) for 0 <= n < Half
block_origin(s, n) == IF s.hi > 0 THEN 0 ELSE s.lo * (n \div s.lo)

pixels_of(r) == 0 .. r.width * r.height - 1

\* C1: in progressive mode, with no pan, zoom or colour-scheme change since
\* scan_level was 0, scan_level is the number of passes made, and once
\* initial_stride >> scan_level is below 1, is_scanning() returns false and a
\* further render call returns having changed neither scan_level nor the frame.
C1_ScanLevelCountsPasses ==
    (phase \in {"running", "client"} /\ renderer.scan_config.enabled)
    => /\ ~panicked
       /\ renderer.scan_level = Len(strides)
       /\ IsZero(halved(renderer.scan_config.initial_stride, renderer.scan_level))
          => /\ ~is_scanning_panics(renderer, overflow_checks)
             /\ ~is_scanning(renderer)
             /\ ~render_panics(renderer, overflow_checks)
             /\ render(renderer, frame, threads).renderer = renderer
             /\ render(renderer, frame, threads).frame = frame

\* C2: after a pass of render_full on a frame of width * height pixels, every
\* pixel holds the colour of its own sample and alpha 255, whatever the size
\* and the number of workers.
C2_FullPassPaintsEveryPixel ==
    (~renderer.scan_config.enabled /\ strides # <<>>
        /\ Len(frame) = 4 * renderer.width * renderer.height)
    => \A p \in pixels_of(renderer) :
          pixel_at(frame, p) = opaque(sample_color(renderer, p))

\* C3: after a pass of render_with_stride with stride s on a frame of
\* width * height pixels, every pixel (x, y) holds the colour of the sample at
\* (s * floor(x / s), s * floor(y / s)), whatever the number of workers.
C3_StridedPassFillsBlocks ==
    (renderer.scan_config.enabled /\ strides # <<>>
        /\ Len(frame) = 4 * renderer.width * renderer.height)
    => LET s == strides[Len(strides)]
       IN  \A p \in pixels_of(renderer) :
              pixel_at(frame, p) =
                 opaque(sample_color(renderer,
                     block_origin(s, p \div renderer.width) * renderer.width
                     + block_origin(s, p % renderer.width)))

\* C4: for every initial_stride >= 1 the passes made since the last change use
\* initial_stride >> 0, initial_stride >> 1, ... in that order, no render call
\* panics, there are at most 32 of them (a u32 halves to 0 in 32 steps), and
\* once is_scanning() is false the last pass made had stride 1.
C4_StridesHalveToOne ==
    (phase \in {"running", "client", "exited"} /\ renderer.scan_config.enabled
        /\ ~IsZero(renderer.scan_config.initial_stride))
    => /\ ~panicked
       /\ \A i \in 1 .. Len(strides) :
             strides[i] = halved(renderer.scan_config.initial_stride, i - 1)
       /\ Len(strides) <= 32
       /\ (strides # <<>> /\ ~is_scanning(renderer))
          => strides[Len(strides)] = ToU32(1)

\* C5: right after pan, an accepted zoom, change_color_scheme or with_args,
\* scan_level is 0; and in every reachable state each of pan, an accepted zoom
\* and change_color_scheme would leave scan_level at 0.
C5_ChangeRestartsRefinement ==
    /\ (\/ last.op \in {"pan", "change_color_scheme", "with_args"}
        \/ (last.op = "zoom" /\ last.accepted))
       => renderer.scan_level = 0
    /\ phase \in {"builder", "running", "client"}
       => /\ \A d \in PanInputs : pan(renderer, d[1], d[2]).scan_level = 0
          /\ \A factor \in ZoomInputs :
                zoom_accepted(renderer, factor)
                => zoom(renderer, factor).scan_level = 0
          /\ \A scheme \in ColorSchemes :
                change_color_scheme(renderer, scheme).scan_level = 0

\* an accepted zoom found a scan level above 0 and left it at 0
C5_Witness ==
    /\ last.op = "zoom" /\ last.accepted
    /\ last.level > 0
    /\ renderer.scan_level = 0

\* C6: for every cap N >= 1, mandelbrot returns N for c = 0 and less than N
\* for every c with |c| > 2.
C6_OriginStaysOutsideEscapes ==
    eval.max_iter >= 1
    => /\ (eval.real = 0 /\ eval.imag = 0) => eval.result = eval.max_iter
       /\ NormExceeds2(eval.real, eval.imag) => eval.result < eval.max_iter

\* C7: whatever pan and zoom calls were made, with whatever arguments, the
\* scale of the region is strictly positive.
C7_ScalePositive == renderer.scale > 0

\* C8: every Args value obtained from Args::default, Args::new, with_size,
\* with_max_iterations and with_scan_config has width, height and
\* max_iterations at least 1 and corners that differ in both axes.
C8_ArgsValidated ==
    (phase = "args" /\ ~panicked)
    => /\ args.width >= 1 /\ args.height >= 1
       /\ args.max_iterations >= 1
       /\ args.upper_left[1] # args.lower_right[1]
       /\ args.upper_left[2] # args.lower_right[2]

\* C9: a call of Renderer::render on a frame whose length is not
\* width * height * 4 panics.
C9_LengthMismatchPanics ==
    (last.op \in {"run", "render"}
        /\ Len(frame) # 4 * renderer.width * renderer.height)
    => panicked

\* C10: when the control loop issues the zoom-in step and then the zoom-out
\* step (PageUp and PageDown both held) and the clamp rejects neither, the
\* scale and the centre of the region are what they were.
C10_ZoomOutUndoesZoomIn ==
    [][(/\ last'.op = "event"
        /\ last'.held = {"PageUp", "PageDown"}
        /\ zoom_accepted(renderer, F(9, 10))
        /\ zoom_accepted(zoom(renderer, F(9, 10)), F(11, 10)))
       => /\ renderer'.scale = renderer.scale
          /\ renderer'.center_x = renderer.center_x
          /\ renderer'.center_y = renderer.center_y]_vars

\* the centre of a renderer's region
center(r) == <<r.center_x, r.center_y>>

\* C11: pan leaves the scale unchanged, pan(dx, dy) followed by pan(-dx, -dy)
\* restores the centre, and two pans give the same centre in either order.
C11_PanInvertsAndCommutes ==
    phase = "client"
    => \A d \in FarPans :
          /\ pan(renderer, d[1], d[2]).scale = renderer.scale
          /\ center(pan(pan(renderer, d[1], d[2]), -d[1], -d[2])) = center(renderer)
          /\ \A e \in FarPans :
                center(pan(pan(renderer, d[1], d[2]), e[1], e[2]))
                = center(pan(pan(renderer, e[1], e[2]), d[1], d[2]))

\* C12: with progressive mode disabled, a render call makes a full pass and
\* does not panic, every pass made was a full one, is_scanning() is false, and
\* scan_level keeps its initial value 0 through render, pan, zoom and
\* change_color_scheme.
C12_DisabledAlwaysFull ==
    (phase \in {"builder", "running", "exited"} /\ ~renderer.scan_config.enabled)
    => /\ renderer.scan_level = 0
       /\ ~is_scanning(renderer)
       /\ ~panicked
       /\ \A i \in 1 .. Len(strides) : strides[i] = ToU32(1)
       /\ ~render_panics(renderer, overflow_checks)
       /\ render(renderer, frame, threads).pass = "full"
       /\ render(renderer, frame, threads).frame = render_full(renderer, frame, threads)
       /\ render(renderer, frame, threads).renderer = renderer
       /\ \A d \in PanInputs :
             pan(renderer, d[1], d[2]).scan_level = renderer.scan_level
       /\ \A factor \in ZoomInputs :
             zoom(renderer, factor).scan_level = renderer.scan_level
       /\ \A scheme \in ColorSchemes :
             change_color_scheme(renderer, scheme).scan_level = renderer.scan_level

\* with progressive mode disabled, the control loop has panned and rendered
C12_Witness ==
    /\ phase = "running" /\ ~renderer.scan_config.enabled
    /\ last.op = "event" /\ last.held = {"Left"}
    /\ strides = <<ToU32(1)>>
    /\ renderer.center_x # Renderer_new.center_x

\* the writes worker chunk_index makes in the pass Renderer::render would make
pass_chunk(r, n, chunk_index) ==
    IF ~r.scan_config.enabled THEN render_full_chunk(r, n, chunk_index)
    ELSE IF IsZero(stride_of(r)) THEN {}
    ELSE render_with_stride_chunk(r, n, stride_of(r), chunk_index)

\* C13: in the pass a render call makes, every write of a worker lies inside
\* the worker's own chunk of the frame, no worker writes two colours to one
\* pixel, no pixel is written by two workers, and the frame is the same
\* whichever of two workers writes first.
C13_WorkersDisjoint ==
    (phase \in {"builder", "running", "client"} /\ ~panicked)
    => LET cs == chunk_size(renderer, threads)
           chunks == chunk_indices(renderer, threads, Len(frame))
           W == [ci \in chunks |-> pass_chunk(renderer, threads, ci)]
       IN  /\ \A ci \in chunks : \A w \in W[ci] :
                 /\ 4 * cs * ci <= w.at
                 /\ w.at + 4 <= 4 * cs * (ci + 1)
                 /\ w.at + 4 <= Len(frame)
                 /\ \A v \in W[ci] : v.at = w.at => v.color = w.color
           /\ \A ci \in chunks : \A cj \in chunks :
                 ci < cj
                 => /\ { w.at : w \in W[ci] } \cap { w.at : w \in W[cj] } = {}
                    /\ apply_writes(apply_writes(frame, W[ci]), W[cj])
                       = apply_writes(apply_writes(frame, W[cj]), W[ci])

\* four workers have each painted their own row of a 4x4 frame
C13_Witness ==
    /\ threads = 4
    /\ renderer.width = 4 /\ renderer.height = 4
    /\ Len(frame) = 64
    /\ strides # <<>> /\ strides[Len(strides)] = ToU32(1)
    /\ \A p \in pixels_of(renderer) :
          pixel_at(frame, p) = opaque(sample_color(renderer, p))

\* C14: color_map(N, N, scheme) is <<0, 0, 0>> for every cap N and every one
\* of the nine schemes, and so is the colour a renderer with cap N gives to
\* an iteration count of N.
C14_InsideIsBlack ==
    (phase = "color" /\ eval.iterations = eval.max_iterations)
    => /\ eval.color = <<0, 0, 0>>
       /\ get_color([Renderer_new EXCEPT !.max_iterations = eval.max_iterations,
                                         !.color_scheme = eval.mode],
                    eval.max_iterations) = <<0, 0, 0>>

\* the Zebra scheme, which paints whole bands white, was asked for the colour
\* of a point that reached a cap of at least 2
C14_Witness ==
    /\ phase = "color" /\ last.op = "color_map"
    /\ eval.mode = "Zebra"
    /\ eval.max_iterations >= 2
    /\ eval.iterations = eval.max_iterations
    /\ eval.color = <<0, 0, 0>>

\* C15: at every render call RendererRunner makes (the first one in run, the
\* later ones from the event loop, where the frame and the renderer's size no
\* longer change), the frame has renderer.width * renderer.height * 4 bytes.
C15_FrameMatchesRenderer ==
    phase = "running"
    => Len(frame) = 4 * renderer.width * renderer.height

\* C16: in the event loop with progressive mode enabled, on an event that
\* comes with no pan, zoom or scheme key: while is_scanning() is true, a
\* RedrawRequested event makes exactly one pass and requests a redraw and a
\* MainEventsCleared event requests a redraw; once is_scanning() is false no
\* pass is made, the frame is untouched and MainEventsCleared requests
\* nothing; no event panics, and is_scanning() becomes false after at most 32
\* passes (a u32 stride halves to 0 in 32 steps).
C16_LoopRefinesThenRests ==
    [][(/\ phase = "running" /\ renderer.scan_config.enabled
        /\ last'.op = "event"
        /\ ~needs_update(last'.held, last'.pressed)
        /\ "Escape" \notin last'.pressed)
       => /\ ~panicked'
          /\ Len(strides') <= 32
          /\ (is_scanning(renderer) /\ last'.ev = "RedrawRequested")
             => /\ Len(strides') = Len(strides) + 1
                /\ renderer'.scan_level = renderer.scan_level + 1
                /\ redraw'
          /\ (is_scanning(renderer) /\ last'.ev = "MainEventsCleared")
             => /\ strides' = strides
                /\ redraw'
          /\ ~is_scanning(renderer)
             => /\ strides' = strides
                /\ frame' = frame
                /\ renderer' = renderer
                /\ last'.ev = "MainEventsCleared" => redraw' = redraw]_vars

\* C17: the scale never exceeds 10; a zoom whose new scale would exceed 10
\* returns the renderer as it found it; a zoom is rejected only for that
\* reason, and right after a rejected zoom scan_level is what the call found.
C17_RejectedZoomChangesNothing ==
    phase \in {"builder", "running", "client", "exited"}
    => /\ renderer.scale <= 10 * Unit
       /\ \A factor \in ZoomInputs :
             FMul(renderer.scale, factor) > 10 * Unit
             => zoom(renderer, factor) = renderer
       /\ (last.op = "zoom" /\ ~last.accepted)
          => /\ FMul(renderer.scale, last.factor) > 10 * Unit
             /\ renderer.scan_level = last.level

\* a zoom out from scale 10 was rejected after a pass had been made
C17_Witness ==
    /\ last.op = "zoom" /\ ~last.accepted
    /\ last.factor = F(11, 10)
    /\ renderer.scale = 10 * Unit
    /\ last.level > 0
    /\ renderer.scan_level = last.level

=============================================================================
